---- MODULE Spec2Model ----
(***************************************************************************)
(* A model of marshmallow's map decoder, UnmarshalFromJSONMap              *)
(* (unmarshal_from_json_map.go): the struct populator, the type-directed  *)
(* value coercer and the three error modes.                               *)
(*                                                                         *)
(* Go values are modelled as records [k |-> dynamic type, v |-> payload]. *)
(* The untyped nil interface is Null.  A JSON number is a float64, a JSON *)
(* string a string, a JSON array a []interface{} and a JSON object a      *)
(* map[string]interface{}.                                                 *)
(***************************************************************************)
EXTENDS Integers, Sequences, FiniteSets, TLC

\* ------------------------------------------------------------------ bounds

\* the largest number of keys of a top-level input object
MaxKeys == 2
\* the largest length of an input JSON array
MaxLen == 2
\* the largest number of options of a call
MaxOptions == 2
\* the number of decodes that run at the same time
NumDecodes == 2
\* the length of the fixed-length array type of the model, "[N]string"
ArrayLen == 1

\* ------------------------------------------------------------------ modes

ModeFailOnFirstError == 0
ModeAllowMultipleErrors == 1
ModeFailOverToOriginalValue == 2
Modes == {ModeFailOnFirstError, ModeAllowMultipleErrors, ModeFailOverToOriginalValue}

\* ------------------------------------------------------------------ values

\* Two values are compared tag first: k is named before v here, and values
\* with the same tag have payloads of the same shape.
Null == [k |-> "nil", v |-> 0]
Val(k, v) == [k |-> k, v |-> v]
Str(s) == Val("string", s)
Num(n) == Val("float64", n)
Arr(s) == Val("[]interface{}", s)
Obj(f) == Val("map[string]interface{}", f)

\* the function with the empty domain: an empty map
EmptyMap == [x \in {} |-> Null]

\* ------------------------------------------------------------------ types

\* the record types of the model: parentStruct is the destination of the
\* decode, childStruct is nested in it
Fields(t) ==
    CASE t = "parentStruct" ->
           [foo |-> "string", boo |-> "[]int", child |-> "childStruct",
            pstr |-> "*string", custom |-> "*failingCustomUnmarshaler",
            okc |-> "customUnmarshaler", unsup |-> "chan int",
            iface |-> "interface{}", arr |-> "[N]string", mp |-> "map[string]string"]
      [] t = "childStruct" -> [c1 |-> "string", c2 |-> "int"]
      [] t = "customUnmarshaler" -> [CustomField |-> "string"]
      [] OTHER -> EmptyMap

Kind(t) ==
    CASE t \in {"string", "int", "interface{}"} -> t
      [] t = "[]int" -> "slice"
      [] t = "[N]string" -> "array"
      [] t = "map[string]string" -> "map"
      [] t \in {"parentStruct", "childStruct", "customUnmarshaler",
                "failingCustomUnmarshaler"} -> "struct"
      [] t \in {"*string", "*failingCustomUnmarshaler", "*customUnmarshaler",
                "*childStruct", "*parentStruct"} -> "ptr"
      [] OTHER -> "chan"

Elem(t) ==
    CASE t = "[]int" -> "int"
      [] t \in {"[N]string", "map[string]string"} -> "string"
      [] t = "*string" -> "string"
      [] t = "*childStruct" -> "childStruct"
      [] t = "*parentStruct" -> "parentStruct"
      [] t = "*customUnmarshaler" -> "customUnmarshaler"
      [] t = "*failingCustomUnmarshaler" -> "failingCustomUnmarshaler"
      [] OTHER -> "invalid"

\* the key type of a map type
Key(t) == IF t = "map[string]string" THEN "string" ELSE "invalid"

PtrTo(t) == "*" \o t

\* the types whose method set holds UnmarshalJSONFromMap: both custom types
\* declare it on the pointer receiver
Implements(t) == t \in {"*customUnmarshaler", "*failingCustomUnmarshaler"}

RECURSIVE Zero(_)
Zero(t) ==
    CASE Kind(t) = "string" -> Str("")
      [] Kind(t) = "int" -> Val("int", 0)
      [] Kind(t) = "struct" ->
           Val(t, [f \in DOMAIN Fields(t) |-> Zero(Fields(t)[f])])
      [] Kind(t) = "array" -> Val(t, [i \in 1..ArrayLen |-> Zero(Elem(t))])
      [] OTHER -> Null

\* ------------------------------------------------------------------ errors

Err(kind, t, path, errors) == [kind |-> kind, type |-> t, path |-> path, Errors |-> errors]
NoErr == Err("nil", "", <<>>, <<>>)
ErrInvalidValue == Err("ErrInvalidValue", "", <<>>, <<>>)
newUnexpectedTypeParseError(t, path) == Err("UnexpectedType", t, path, <<>>)
newUnsupportedTypeParseError(t, path) == Err("UnsupportedType", t, path, <<>>)
MultipleError(errs) == Err("MultipleError", "", <<>>, errs)

\* ------------------------------------------------------------------ decoder

\* mapDecoder{options, err, errs}; raised is a history of the errors handed
\* to addError, in order (it is no field of the Go struct)
NewDecoder(opts) == [options |-> opts, err |-> NoErr, errs |-> <<>>, raised |-> <<>>]

\* addError with the mode forgotten: the error always goes to the list
addError_listOnly(d, err) ==
    [d EXCEPT !.errs = Append(@, err), !.raised = Append(@, err)]

\* addError that writes no slot in fail-over mode
addError_failOverSilent(d, err) ==
    IF d.options.mode = ModeFailOnFirstError
    THEN [d EXCEPT !.err = err, !.raised = Append(@, err)]
    ELSE IF d.options.mode = ModeFailOverToOriginalValue
    THEN [d EXCEPT !.raised = Append(@, err)]
    ELSE [d EXCEPT !.errs = Append(@, err), !.raised = Append(@, err)]

\* lines 269-275
addError(d, err) ==
    IF d.options.mode = ModeFailOnFirstError
    THEN [d EXCEPT !.err = err, !.raised = Append(@, err)]
    ELSE [d EXCEPT !.errs = Append(@, err), !.raised = Append(@, err)]

\* the custom decoders of the tests: customUnmarshaler sets its field and
\* succeeds, failingCustomUnmarshaler fails and leaves itself untouched
UnmarshalJSONFromMap(t, data) ==
    IF t = "customUnmarshaler"
    THEN [obj |-> [CustomField |-> Str("UnmarshalJSON called")], err |-> NoErr]
    ELSE [obj |-> Zero(t).v, err |-> Err("failing", "", <<>>, <<>>)]

valueFromCustomUnmarshaler(d, data, t) ==
    LET err == UnmarshalJSONFromMap(t, data).err
    IN  IF err # NoErr THEN addError(d, err) ELSE d

\* primitiveConverters[kind]: a type assertion of the JSON value, followed
\* by a numeric conversion for the integer kinds
HasConverter(kind) == kind \in {"string", "int", "interface{}"}

converter(kind, v) ==
    CASE kind = "string" ->
           IF v.k = "string" THEN [value |-> v, ok |-> TRUE] ELSE [value |-> v, ok |-> FALSE]
      [] kind = "int" ->
           IF v.k = "float64" THEN [value |-> Val("int", v.v), ok |-> TRUE]
           ELSE [value |-> v, ok |-> FALSE]
      [] OTHER -> [value |-> v, ok |-> TRUE]

\* mapStructFields: the JSON names of the fields of a struct type
mapStructFields(t) == Fields(t)

\* safeReflectValue: the zero value of the type stands in for nil
safeReflectValue(t, value) == IF value = Null THEN Zero(t) ELSE value

\* assignValue: a nil value, or one not assignable to the field, is not set
assignValue(inst, t, key, value) ==
    IF value = Null THEN inst
    ELSE IF value.k = Fields(t)[key] \/ Kind(Fields(t)[key]) = "interface{}"
         THEN [inst EXCEPT ![key] = value]
         ELSE inst

\* result[key] = value on a Go map held as Obj(f)
Put(result, key, value) ==
    Obj([x \in (DOMAIN result.v) \cup {key} |->
            IF x = key THEN value ELSE result.v[x]])

Out(value, ok, d) == [value |-> value, ok |-> ok, d |-> d]

\* a run-time panic of the reflect package: the call that meets it never
\* returns, and neither does any of its callers
Panic == [k |-> "panic", v |-> 0]

\* ------------------------------------------------------------------ coercer
\* Every operator returns the set of the outcomes the call can have: the
\* order in which Go ranges over a map is not fixed.

RECURSIVE valueByReflectType(_, _, _, _, _)
RECURSIVE buildSliceLoop(_, _, _, _, _, _)
RECURSIVE populateStructLoop(_, _, _, _, _, _)
RECURSIVE buildArrayLoop(_, _, _, _, _, _)
RECURSIVE buildMapLoop(_, _, _, _, _, _)

\* buildSliceLoop that leaves a failing element out and goes on
buildSliceLoop_skipFailing(d, path, v, sliceType, i, sliceValue) ==
    IF i > Len(v.v) THEN {Out(Val(sliceType, sliceValue), TRUE, d)}
    ELSE UNION {
           IF o.value = Panic THEN {o}
           ELSE IF ~o.ok
           THEN buildSliceLoop(o.d, path, v, sliceType, i + 1, sliceValue)
           ELSE buildSliceLoop(o.d, path, v, sliceType, i + 1,
                               Append(sliceValue, safeReflectValue(Elem(sliceType), o.value)))
           : o \in valueByReflectType(d, path, v.v[i], Elem(sliceType), FALSE) }

buildSliceLoop(d, path, v, sliceType, i, sliceValue) ==
    IF i > Len(v.v) THEN {Out(Val(sliceType, sliceValue), TRUE, d)}
    ELSE UNION {
           IF o.value = Panic THEN {o}
           ELSE IF ~o.ok
           THEN {Out(IF d.options.mode # ModeFailOverToOriginalValue THEN Null ELSE v,
                     TRUE, o.d)}
           ELSE buildSliceLoop(o.d, path, v, sliceType, i + 1,
                               Append(sliceValue, safeReflectValue(Elem(sliceType), o.value)))
           : o \in valueByReflectType(d, path, v.v[i], Elem(sliceType), FALSE) }

buildSlice(d, path, v, sliceType) ==
    IF v = Null THEN {Out(Null, TRUE, d)}
    ELSE IF v.k # "[]interface{}"
         THEN {Out(v, FALSE, addError(d, newUnexpectedTypeParseError(sliceType, path)))}
         ELSE buildSliceLoop(d, path, v, sliceType, 1, <<>>)

\* the range loop of buildArray at the element i (from 1); writing past the
\* end of the array panics in reflect.Value.Index
buildArrayLoop(d, path, v, arrayType, i, arrayValue) ==
    IF i > Len(v.v) THEN {Out(Val(arrayType, arrayValue), TRUE, d)}
    ELSE UNION {
           IF o.value = Panic THEN {o}
           ELSE IF ~o.ok
           THEN {Out(IF d.options.mode # ModeFailOverToOriginalValue THEN Null ELSE v,
                     TRUE, o.d)}
           ELSE IF o.value = Null
           THEN buildArrayLoop(o.d, path, v, arrayType, i + 1, arrayValue)
           ELSE IF i > ArrayLen THEN {Out(Panic, FALSE, o.d)}
           ELSE buildArrayLoop(o.d, path, v, arrayType, i + 1,
                               [arrayValue EXCEPT ![i] = o.value])
           : o \in valueByReflectType(d, path, v.v[i], Elem(arrayType), FALSE) }

\* buildArray that answers null with the zero array
buildArray_zeroForNull(d, path, v, arrayType) ==
    IF v = Null THEN {Out(Zero(arrayType), TRUE, d)}
    ELSE IF v.k # "[]interface{}"
         THEN {Out(v, FALSE, addError(d, newUnexpectedTypeParseError(arrayType, path)))}
         ELSE buildArrayLoop(d, path, v, arrayType, 1, Zero(arrayType).v)

buildArray(d, path, v, arrayType) ==
    IF v = Null THEN {Out(Null, TRUE, d)}
    ELSE IF v.k # "[]interface{}"
         THEN {Out(v, FALSE, addError(d, newUnexpectedTypeParseError(arrayType, path)))}
         ELSE buildArrayLoop(d, path, v, arrayType, 1, Zero(arrayType).v)

\* the range loop of buildMap: the entries not yet visited are todo, and any
\* of them may be the next one
buildMapLoop(d, path, v, mapType, mapValue, todo) ==
    IF todo = {} THEN {Out(Val(mapType, mapValue), TRUE, d)}
    ELSE UNION {
           LET keyPath == Append(path, inputKey)
               failed(dd) == Out(IF d.options.mode # ModeFailOverToOriginalValue
                                 THEN Null ELSE v, TRUE, dd)
           IN  UNION {
                 IF key.value = Panic THEN {key}
                 ELSE IF ~key.ok THEN {failed(key.d)}
                 ELSE UNION {
                        IF value.value = Panic THEN {value}
                        ELSE IF ~value.ok THEN {failed(value.d)}
                        ELSE buildMapLoop(value.d, path, v, mapType,
                               [x \in (DOMAIN mapValue) \cup
                                       {safeReflectValue(Key(mapType), key.value).v} |->
                                  IF x = safeReflectValue(Key(mapType), key.value).v
                                  THEN safeReflectValue(Elem(mapType), value.value)
                                  ELSE mapValue[x]],
                               todo \ {inputKey})
                        : value \in valueByReflectType(key.d, keyPath, v.v[inputKey],
                                                      Elem(mapType), FALSE) }
                 : key \in valueByReflectType(d, keyPath, Str(inputKey),
                                              Key(mapType), FALSE) }
           : inputKey \in todo }

\* buildMap that takes null for a value of the wrong type
buildMap_nullFails(d, path, v, mapType) ==
    IF v = Null \/ v.k # "map[string]interface{}"
    THEN {Out(v, FALSE, addError(d, newUnexpectedTypeParseError(mapType, path)))}
    ELSE buildMapLoop(d, path, v, mapType, EmptyMap, DOMAIN v.v)

buildMap(d, path, v, mapType) ==
    IF v = Null THEN {Out(Null, TRUE, d)}
    ELSE IF v.k # "map[string]interface{}"
         THEN {Out(v, FALSE, addError(d, newUnexpectedTypeParseError(mapType, path)))}
         ELSE buildMapLoop(d, path, v, mapType, EmptyMap, DOMAIN v.v)

\* what one iteration of the range loop of populateStruct leaves behind: the
\* loop goes on (returned = FALSE) or populateStruct returns (value, ok)
KeyStep(d, inst, result) ==
    [d |-> d, inst |-> inst, result |-> result, returned |-> FALSE, value |-> Null, ok |-> TRUE]
KeyReturn(d, inst, result, value, ok) ==
    [d |-> d, inst |-> inst, result |-> result, returned |-> TRUE, value |-> value, ok |-> ok]

\* onValidType that never writes the struct field
onValidType_noAssign(d, structType, inst, result, key, value) ==
    KeyStep(d, inst, IF result # Null THEN Put(result, key, value) ELSE result)

\* onValidType that writes the struct field whatever skipPopulateStruct says
onValidType_ignoreSkip(d, structType, inst, result, key, value) ==
    KeyStep(d, assignValue(inst, structType, key, value),
            IF result # Null THEN Put(result, key, value) ELSE result)

\* lines 72-78: the value is of a valid type
onValidType(d, structType, inst, result, key, value) ==
    KeyStep(d,
            IF ~d.options.skipPopulateStruct \/ result = Null
            THEN assignValue(inst, structType, key, value) ELSE inst,
            IF result # Null THEN Put(result, key, value) ELSE result)

\* onInvalidType with allow-multiple-errors treated as fail-over
onInvalidType_keepRaw(d, data, inst, result, key, value) ==
    CASE d.options.mode = ModeFailOnFirstError -> KeyReturn(d, inst, result, Null, FALSE)
      [] OTHER ->
           IF result # Null
           THEN KeyStep(d, inst, Put(result, key, value))
           ELSE KeyReturn(d, inst, result, Obj(data), FALSE)

\* onInvalidType with fail-over treated as allow-multiple-errors
onInvalidType_omit(d, data, inst, result, key, value) ==
    CASE d.options.mode = ModeFailOnFirstError -> KeyReturn(d, inst, result, Null, FALSE)
      [] OTHER -> KeyStep(d, inst, result)

\* onInvalidType that returns in every mode but fail-over
onInvalidType_abort(d, data, inst, result, key, value) ==
    CASE d.options.mode = ModeFailOverToOriginalValue ->
           IF result # Null
           THEN KeyStep(d, inst, Put(result, key, value))
           ELSE KeyReturn(d, inst, result, Obj(data), FALSE)
      [] OTHER -> KeyReturn(d, inst, result, Null, FALSE)

\* onInvalidType that gives up a nested record at its first failing field in
\* allow-multiple-errors mode too
onInvalidType_nestedAbort(d, data, inst, result, key, value) ==
    CASE d.options.mode = ModeFailOnFirstError -> KeyReturn(d, inst, result, Null, FALSE)
      [] d.options.mode = ModeFailOverToOriginalValue ->
           IF result # Null
           THEN KeyStep(d, inst, Put(result, key, value))
           ELSE KeyReturn(d, inst, result, Obj(data), FALSE)
      [] OTHER -> IF result # Null THEN KeyStep(d, inst, result)
                  ELSE KeyReturn(d, inst, result, Null, FALSE)

\* lines 79-90: the value is not of a valid type
onInvalidType(d, data, inst, result, key, value) ==
    CASE d.options.mode = ModeFailOnFirstError -> KeyReturn(d, inst, result, Null, FALSE)
      [] d.options.mode = ModeFailOverToOriginalValue ->
           IF result # Null
           THEN KeyStep(d, inst, Put(result, key, value))
           ELSE KeyReturn(d, inst, result, Obj(data), FALSE)
      [] OTHER -> KeyStep(d, inst, result)

\* onUnknownKey that makes a map of its own when it is given none
onUnknownKey_allocates(d, inst, result, key, inputValue) ==
    KeyStep(d, inst, Put(IF result # Null THEN result ELSE Obj(EmptyMap), key, inputValue))

\* onUnknownKey that stores the value wrapped in an array
onUnknownKey_wrap(d, inst, result, key, inputValue) ==
    KeyStep(d, inst, IF result # Null THEN Put(result, key, Arr(<<inputValue>>)) ELSE result)

\* onUnknownKey that drops the key
onUnknownKey_drop(d, inst, result, key, inputValue) == KeyStep(d, inst, result)

\* lines 91-95: the key names no field of the struct
onUnknownKey(d, inst, result, key, inputValue) ==
    KeyStep(d, inst, IF result # Null THEN Put(result, key, inputValue) ELSE result)

\* one iteration of the range loop of populateStruct over the key `key`;
\* result is Null for a nested struct (no map requested)
populateKey(d, path, data, structType, inst, result, key) ==
    LET fields == mapStructFields(structType)
        inputValue == data[key]
    IN  IF key \in DOMAIN fields
        THEN { IF o.value = Panic THEN KeyReturn(o.d, inst, result, Panic, FALSE)
               ELSE IF o.ok
               THEN onValidType(o.d, structType, inst, result, key, o.value)
               ELSE onInvalidType(o.d, data, inst, result, key, o.value)
               : o \in valueByReflectType(d, Append(path, key), inputValue,
                                          fields[key], FALSE) }
        ELSE { onUnknownKey(d, inst, result, key, inputValue) }

\* populateStruct called for a nested struct: the keys not yet visited are
\* todo, and any of them may be the next one
populateStructLoop(d, path, data, structType, inst, todo) ==
    IF todo = {} THEN {Out(Val(PtrTo(structType), inst), TRUE, d)}
    ELSE UNION {
           UNION { IF s.returned THEN {Out(s.value, s.ok, s.d)}
                   ELSE populateStructLoop(s.d, path, data, structType, s.inst, todo \ {key})
                   : s \in populateKey(d, path, data, structType, inst, Null, key) }
           : key \in todo }

buildStruct(d, path, v, structType) ==
    IF v = Null THEN {Out(Null, TRUE, d)}
    ELSE IF v.k # "map[string]interface{}"
         THEN {Out(v, FALSE, addError(d, newUnexpectedTypeParseError(structType, path)))}
         ELSE populateStructLoop(d, path, v.v, structType, Zero(structType).v, DOMAIN v.v)

\* *p for a pointer value p; &x for a value x
Deref(p) == Val(Elem(p.k), p.v)
NewPtr(x) == Val(PtrTo(x.k), x.v)

valueByReflectType(d, path, v, t, isPtr) ==
    IF Implements(t)
    THEN {Out(Val(t, UnmarshalJSONFromMap(Elem(t), v).obj), TRUE,
              valueFromCustomUnmarshaler(d, v, Elem(t)))}
    ELSE IF Implements(PtrTo(t))
    THEN {Out(Val(t, UnmarshalJSONFromMap(t, v).obj), TRUE,
              valueFromCustomUnmarshaler(d, v, t))}
    ELSE IF HasConverter(Kind(t))
    THEN IF v = Null
         THEN IF isPtr \/ Kind(t) = "interface{}" THEN {Out(v, TRUE, d)}
              ELSE {Out(Zero(t), TRUE, d)}
         ELSE IF ~converter(Kind(t), v).ok
              THEN {Out(v, FALSE, addError(d, newUnexpectedTypeParseError(t, path)))}
              ELSE {Out(converter(Kind(t), v).value, TRUE, d)}
    ELSE CASE Kind(t) = "slice" -> buildSlice(d, path, v, t)
           [] Kind(t) = "array" -> buildArray(d, path, v, t)
           [] Kind(t) = "map" -> buildMap(d, path, v, t)
           [] Kind(t) = "struct" ->
                { IF o.value = Null THEN Out(Null, o.ok, o.d)
                  ELSE IF ~o.ok THEN Out(o.value, FALSE, o.d)
                  ELSE Out(Deref(o.value), o.ok, o.d)
                  : o \in buildStruct(d, path, v, t) }
           [] Kind(t) = "ptr" ->
                IF Kind(Elem(t)) = "struct" THEN buildStruct(d, path, v, Elem(t))
                ELSE { IF o.value = Null THEN Out(Null, o.ok, o.d)
                       ELSE IF ~o.ok THEN Out(o.value, FALSE, o.d)
                       ELSE Out(NewPtr(o.value), o.ok, o.d)
                       : o \in valueByReflectType(d, path, v, Elem(t), TRUE) }
           [] OTHER -> {Out(Null, FALSE, addError(d, newUnsupportedTypeParseError(t, path)))}

\* ------------------------------------------------------------------ options

WithMode(mode) == [fn |-> "WithMode", x |-> mode]
WithSkipPopulateStruct(skip) == [fn |-> "WithSkipPopulateStruct", x |-> IF skip THEN 1 ELSE 0]

RECURSIVE applyOptions(_, _)
applyOptions(result, options) ==
    IF options = <<>> THEN result
    ELSE applyOptions(
           IF Head(options).fn = "WithMode"
           THEN [result EXCEPT !.mode = Head(options).x]
           ELSE [result EXCEPT !.skipPopulateStruct = (Head(options).x = 1)],
           Tail(options))

\* buildUnmarshalOptions that applies the first option only
buildUnmarshalOptions_firstOnly(options) ==
    applyOptions([mode |-> ModeFailOnFirstError, skipPopulateStruct |-> FALSE],
                 IF options = <<>> THEN <<>> ELSE <<Head(options)>>)

buildUnmarshalOptions(options) ==
    applyOptions([mode |-> ModeFailOnFirstError, skipPopulateStruct |-> FALSE], options)

\* isValidValue: v is a non-nil pointer to a struct
isValidValue(v) == v # Null /\ Kind(v.k) = "ptr" /\ Kind(Elem(v.k)) = "struct"

\* ------------------------------------------------------------------ inputs

\* the sequences over S of length at most n
RECURSIVE SeqsUpTo(_, _)
SeqsUpTo(S, n) ==
    IF n = 0 THEN {<<>>}
    ELSE SeqsUpTo(S, n - 1) \cup
         {Append(s, e) : s \in {q \in SeqsUpTo(S, n - 1) : Len(q) = n - 1}, e \in S}

\* the functions that map each key of a subset of the domain of vals to one
\* of the values vals gives for it
Objects(vals, n) ==
    UNION { {f \in [S -> UNION {vals[k] : k \in S}] : \A k \in S : f[k] \in vals[k]}
            : S \in {T \in SUBSET DOMAIN vals : Cardinality(T) <= n} }

ChildValues ==
    [c1 |-> {Str("a"), Num(1)}, c2 |-> {Num(3), Str("b")}]

MapValues ==
    [m1 |-> {Str("s"), Num(1)}, m2 |-> {Str("t"), Num(2), Null}]

\* the values an input gives for each key; goo is a key parentStruct lacks
KeyValues ==
    [foo |-> {Str("bar"), Num(2), Null},
     boo |-> {Arr(s) : s \in SeqsUpTo({Num(1), Str("x")}, MaxLen)} \cup {Str("x"), Null},
     child |-> {Obj(f) : f \in Objects(ChildValues, 2)} \cup {Num(12), Null},
     pstr |-> {Str("p"), Num(5), Null},
     custom |-> {Str("")},
     okc |-> {Str("")},
     unsup |-> {Str("u"), Null},
     goo |-> {Num(12), Arr(<<Str("x")>>)}]

Inputs == {Obj(f) : f \in Objects(KeyValues, MaxKeys)} \cup {Null}

\* inputs with a key for a field of every kind, each of them null in some
\* input: null at the top level, in a nested record, in a sequence, in a map
KindValues ==
    [foo |-> {Str("bar"), Num(2), Null},
     boo |-> {Arr(<<Null, Num(1)>>), Arr(<<Num(1), Str("x")>>), Str("x"), Null},
     child |-> {Obj([c1 |-> Null, c2 |-> Num(3), cx |-> Num(9)]), Null},
     pstr |-> {Str("p"), Null},
     custom |-> {Str(""), Null},
     okc |-> {Str(""), Null},
     unsup |-> {Str("u"), Null},
     iface |-> {Num(7), Null},
     arr |-> {Arr(s) : s \in SeqsUpTo({Str("a")}, MaxLen)}
                \cup {Arr(<<Num(1)>>), Arr(<<Null>>), Str("x"), Null},
     mp |-> {Obj(f) : f \in Objects(MapValues, 2)} \cup {Num(12), Null},
     goo |-> {Num(12), Null}]

KindInputs == {Obj(f) : f \in Objects(KindValues, MaxKeys)} \cup {Null}

Destinations == {Zero("parentStruct"), NewPtr(Zero("parentStruct")), Null, Str("")}

OptionLists ==
    {<<>>} \cup {<<WithMode(m)>> : m \in Modes}
           \cup {<<WithMode(m), WithSkipPopulateStruct(TRUE)>> : m \in Modes}

\* ------------------------------------------------------------------ state

VARIABLES
    data,       \* the input map, Null for a nil map
    v,          \* the destination
    options,    \* the options of the call
    d,          \* the mapDecoder
    result,     \* the map under construction
    todo,       \* the keys the range loop of the top-level populateStruct has not visited
    pc,         \* "call", "populate", "return", "done"; "panic" once the call has panicked
    ret,        \* what the call returned: [map, err]
    resultAt,   \* the map `result` refers to: "nil" before the call, "make" for
                \* the map line 40 makes, "data" for the input map
    cache,      \* the package variable cache: whether it is non-nil, and what it holds
    decodes     \* the concurrent decodes, each somewhere in mapStructFields

decodeVars == <<data, v, options, d, result, todo, pc, ret, resultAt>>

cacheVars == <<cache, decodes>>

vars == <<data, v, options, d, result, todo, pc, ret, resultAt, cache, decodes>>

\* var cache Cache: nil until EnableCache is called
NoCache == [enabled |-> FALSE, store |-> EmptyMap]

\* a decode that is not running
Idle == [pc |-> "idle", t |-> "", fields |-> Null]

Decoders == 1..NumDecodes

NoReturn == [map |-> Null, err |-> NoErr]

InitWith(inputs) ==
    /\ data \in inputs
    /\ v \in Destinations
    /\ options \in OptionLists
    /\ d = NewDecoder(buildUnmarshalOptions(<<>>))
    /\ result = Null
    /\ todo = {}
    /\ pc = "call"
    /\ ret = NoReturn
    /\ resultAt = "nil"
    /\ cache = NoCache
    /\ decodes = [p \in Decoders |-> Idle]

Init == InitWith(Inputs)

\* calls with any list of at most MaxOptions options, on inputs with a key
\* that fails, a sequence with a failing element and an unknown key
OptionValues ==
    [foo |-> {Str("bar"), Num(2)},
     boo |-> {Arr(<<Num(1)>>), Arr(<<Str("x")>>)},
     goo |-> {Num(12)}]

OptionInputs == {Obj(f) : f \in Objects(OptionValues, MaxKeys)} \cup {Null}

AnyOptionLists ==
    SeqsUpTo({WithMode(m) : m \in Modes} \cup {WithSkipPopulateStruct(TRUE)}, MaxOptions)

InitOptions ==
    /\ data \in OptionInputs
    /\ v \in Destinations
    /\ options \in AnyOptionLists
    /\ d = NewDecoder(buildUnmarshalOptions(<<>>))
    /\ result = Null
    /\ todo = {}
    /\ pc = "call"
    /\ ret = NoReturn
    /\ resultAt = "nil"
    /\ cache = NoCache
    /\ decodes = [p \in Decoders |-> Idle]

InitKinds == InitWith(KindInputs)

\* CallInvalid that hands out an empty map with the error
CallInvalid_emptyMap ==
    /\ pc = "call"
    /\ ~isValidValue(v)
    /\ ret' = [map |-> Obj(EmptyMap), err |-> ErrInvalidValue]
    /\ pc' = "done"
    /\ UNCHANGED <<data, v, options, d, result, todo, resultAt>>
    /\ UNCHANGED cacheVars

\* lines 35-37: the destination is rejected
CallInvalid ==
    /\ pc = "call"
    /\ ~isValidValue(v)
    /\ ret' = [map |-> Null, err |-> ErrInvalidValue]
    /\ pc' = "done"
    /\ UNCHANGED <<data, v, options, d, result, todo, resultAt>>
    /\ UNCHANGED cacheVars

\* Call that makes no map for a nil input
Call_nilMap ==
    /\ pc = "call"
    /\ isValidValue(v)
    /\ d' = NewDecoder(buildUnmarshalOptions(options))
    /\ IF data # Null
       THEN pc' = "populate" /\ todo' = DOMAIN data.v /\ result' = Obj(EmptyMap)
       ELSE pc' = "return" /\ todo' = {} /\ result' = Null
    /\ resultAt' = IF data # Null THEN "make" ELSE "nil"
    /\ UNCHANGED <<data, v, options, ret>>
    /\ UNCHANGED cacheVars

\* Call that fills the input map in place instead of making a map
Call_reuseInput ==
    /\ pc = "call"
    /\ isValidValue(v)
    /\ d' = NewDecoder(buildUnmarshalOptions(options))
    /\ IF data # Null
       THEN pc' = "populate" /\ todo' = DOMAIN data.v
            /\ result' = data /\ resultAt' = "data"
       ELSE pc' = "return" /\ todo' = {}
            /\ result' = Obj(EmptyMap) /\ resultAt' = "make"
    /\ UNCHANGED <<data, v, options, ret>>
    /\ UNCHANGED cacheVars

\* lines 38-43, up to the range loop of populateStruct
Call ==
    /\ pc = "call"
    /\ isValidValue(v)
    /\ d' = NewDecoder(buildUnmarshalOptions(options))
    /\ result' = Obj(EmptyMap)
    /\ resultAt' = "make"
    /\ IF data # Null
       THEN pc' = "populate" /\ todo' = DOMAIN data.v
       ELSE pc' = "return" /\ todo' = {}
    /\ UNCHANGED <<data, v, options, ret>>
    /\ UNCHANGED cacheVars

\* one iteration of the range loop of the top-level populateStruct; what it
\* writes to `result` is written to the map `result` refers to
Populate ==
    /\ pc = "populate"
    /\ \E key \in todo :
         \E s \in populateKey(d, <<>>, data.v, Elem(v.k), v.v, result, key) :
            /\ d' = s.d
            /\ v' = [v EXCEPT !.v = s.inst]
            /\ result' = s.result
            /\ todo' = todo \ {key}
            /\ data' = IF resultAt = "data" THEN s.result ELSE data
            /\ pc' = IF s.value = Panic THEN "panic"
                     ELSE IF s.returned THEN "return" ELSE "populate"
    /\ UNCHANGED <<options, ret, resultAt>>
    /\ UNCHANGED cacheVars

\* the range loop is over: return structInstance, true
PopulateEnd ==
    /\ pc = "populate"
    /\ todo = {}
    /\ pc' = "return"
    /\ UNCHANGED <<data, v, options, d, result, todo, ret, resultAt>>
    /\ UNCHANGED cacheVars

\* Return that hands out a single recorded error bare
Return_bare ==
    /\ pc = "return"
    /\ ret' = IF d.options.mode = ModeAllowMultipleErrors
                 \/ d.options.mode = ModeFailOverToOriginalValue
              THEN IF Len(d.errs) = 0 THEN [map |-> result, err |-> NoErr]
                   ELSE IF Len(d.errs) = 1 THEN [map |-> result, err |-> d.errs[1]]
                   ELSE [map |-> result, err |-> MultipleError(d.errs)]
              ELSE IF d.err # NoErr THEN [map |-> Null, err |-> d.err]
                   ELSE [map |-> result, err |-> NoErr]
    /\ pc' = "done"
    /\ UNCHANGED <<data, v, options, d, result, todo, resultAt>>
    /\ UNCHANGED cacheVars

\* lines 44-53
Return ==
    /\ pc = "return"
    /\ ret' = IF d.options.mode = ModeAllowMultipleErrors
                 \/ d.options.mode = ModeFailOverToOriginalValue
              THEN IF Len(d.errs) = 0 THEN [map |-> result, err |-> NoErr]
                   ELSE [map |-> result, err |-> MultipleError(d.errs)]
              ELSE IF d.err # NoErr THEN [map |-> Null, err |-> d.err]
                   ELSE [map |-> result, err |-> NoErr]
    /\ pc' = "done"
    /\ UNCHANGED <<data, v, options, d, result, todo, resultAt>>
    /\ UNCHANGED cacheVars

Next == CallInvalid \/ Call \/ Populate \/ PopulateEnd \/ Return

Spec == Init /\ [][Next]_vars

\* the same program called with any list of options
SpecOptions == InitOptions /\ [][Next]_vars

\* the same program on the inputs that reach every kind of field
SpecKinds == InitKinds /\ [][Next]_vars

\* ------------------------------------------------------------------ cache

\* the struct types whose fields the decodes look up
CacheTypes == {"parentStruct", "childStruct"}

\* the field mapping of a struct type as a value of the cache
FieldMap(t) == Val("map[string]int", mapStructFields(t))

\* no decode runs, the cache is nil
InitCache ==
    /\ data = Null
    /\ v = Null
    /\ options = <<>>
    /\ d = NewDecoder(buildUnmarshalOptions(<<>>))
    /\ result = Null
    /\ todo = {}
    /\ pc = "idle"
    /\ ret = NoReturn
    /\ resultAt = "nil"
    /\ cache = NoCache
    /\ decodes = [p \in Decoders |-> Idle]

\* EnableCache called at any time, a decode in flight or not
EnableCache_anytime ==
    /\ \E c \in {NoCache, [enabled |-> TRUE, store |-> EmptyMap]} : cache' = c
    /\ UNCHANGED decodes
    /\ UNCHANGED decodeVars

\* EnableCache(c), with nil or with a new empty store, called while no
\* decode is in flight
EnableCache ==
    /\ \A p \in Decoders : decodes[p].pc = "idle"
    /\ \E c \in {NoCache, [enabled |-> TRUE, store |-> EmptyMap]} : cache' = c
    /\ UNCHANGED decodes
    /\ UNCHANGED decodeVars

\* a decode enters mapStructFields for the type t
StartLookup(p) ==
    /\ decodes[p].pc = "idle"
    /\ \E t \in CacheTypes :
         decodes' = [decodes EXCEPT ![p] = [pc |-> "lookup", t |-> t, fields |-> Null]]
    /\ UNCHANGED cache
    /\ UNCHANGED decodeVars

\* cacheLookup: if cache == nil { return nil }
cacheLookup(p) ==
    /\ decodes[p].pc = "lookup"
    /\ decodes' = [decodes EXCEPT ![p].pc = IF cache.enabled THEN "load" ELSE "walk"]
    /\ UNCHANGED cache
    /\ UNCHANGED decodeVars

\* cacheLookup: cache.Load(t), one atomic step; on a nil cache it panics
Load(p) ==
    /\ decodes[p].pc = "load"
    /\ decodes' =
         [decodes EXCEPT ![p] =
            IF ~cache.enabled THEN [@ EXCEPT !.pc = "panic"]
            ELSE IF decodes[p].t \in DOMAIN cache.store
                 THEN [@ EXCEPT !.pc = "done", !.fields = cache.store[decodes[p].t]]
                 ELSE [@ EXCEPT !.pc = "walk"]]
    /\ UNCHANGED cache
    /\ UNCHANGED decodeVars

\* mapStructFields on a miss: the fields of the type are walked
Walk(p) ==
    /\ decodes[p].pc = "walk"
    /\ decodes' = [decodes EXCEPT ![p].pc = "store", ![p].fields = FieldMap(decodes[p].t)]
    /\ UNCHANGED cache
    /\ UNCHANGED decodeVars

\* cacheStore: if cache == nil { return }
cacheStore(p) ==
    /\ decodes[p].pc = "store"
    /\ decodes' = [decodes EXCEPT ![p].pc = IF cache.enabled THEN "storing" ELSE "done"]
    /\ UNCHANGED cache
    /\ UNCHANGED decodeVars

\* cacheStore: cache.Store(t, fields), one atomic step; on a nil cache it panics
Store(p) ==
    /\ decodes[p].pc = "storing"
    /\ IF ~cache.enabled
       THEN /\ decodes' = [decodes EXCEPT ![p].pc = "panic"]
            /\ UNCHANGED cache
       ELSE /\ decodes' = [decodes EXCEPT ![p].pc = "done"]
            /\ cache' = [cache EXCEPT !.store =
                            [x \in (DOMAIN cache.store) \cup {decodes[p].t} |->
                               IF x = decodes[p].t THEN decodes[p].fields
                               ELSE cache.store[x]]]
    /\ UNCHANGED decodeVars

\* the decode is over
Finish(p) ==
    /\ decodes[p].pc = "done"
    /\ decodes' = [decodes EXCEPT ![p] = Idle]
    /\ UNCHANGED cache
    /\ UNCHANGED decodeVars

NextCache ==
    \/ EnableCache
    \/ \E p \in Decoders :
         \/ StartLookup(p) \/ cacheLookup(p) \/ Load(p) \/ Walk(p)
         \/ cacheStore(p) \/ Store(p) \/ Finish(p)

SpecCache == InitCache /\ [][NextCache]_vars

\* ------------------------------------------------------------------ claims

\* the call ran the decoder and has returned
Decoded == pc = "done" /\ isValidValue(v)
Mode == buildUnmarshalOptions(options).mode
Skip == buildUnmarshalOptions(options).skipPopulateStruct
InputKeys == IF data = Null THEN {} ELSE DOMAIN data.v
KnownKeys == InputKeys \cap DOMAIN Fields("parentStruct")
FieldType(k) == Fields("parentStruct")[k]

\* x cannot be turned into a t: its own shape is wrong for t, or t is not
\* supported, or something inside x fails
RECURSIVE Fails(_, _)
Fails(t, x) ==
    IF Implements(t) THEN UnmarshalJSONFromMap(Elem(t), x).err # NoErr
    ELSE IF Implements(PtrTo(t)) THEN UnmarshalJSONFromMap(t, x).err # NoErr
    ELSE CASE Kind(t) = "string" -> x # Null /\ x.k # "string"
           [] Kind(t) = "int" -> x # Null /\ x.k # "float64"
           [] Kind(t) = "interface{}" -> FALSE
           [] Kind(t) \in {"slice", "array"} ->
                /\ x # Null
                /\ \/ x.k # "[]interface{}"
                   \/ \E i \in 1..Len(x.v) : Fails(Elem(t), x.v[i])
           [] Kind(t) = "map" ->
                /\ x # Null
                /\ \/ x.k # "map[string]interface{}"
                   \/ \E f \in DOMAIN x.v : Fails(Elem(t), x.v[f])
           [] Kind(t) = "struct" ->
                /\ x # Null
                /\ \/ x.k # "map[string]interface{}"
                   \/ \E f \in DOMAIN x.v \cap DOMAIN Fields(t) : Fails(Fields(t)[f], x.v[f])
           [] Kind(t) = "ptr" -> Fails(Elem(t), x)
           [] OTHER -> TRUE

FailingKeys == {k \in KnownKeys : Fails(FieldType(k), data.v[k])}

\* C1: in fail-on-first-error mode, an input in which anything fails (a
\* top-level field, a nested field, an element of a sequence, a custom
\* decoder) makes the call return a nil map and a non-nil error
C1_FailOnFirstReturnsNilAndError ==
    (Decoded /\ Mode = ModeFailOnFirstError /\ FailingKeys # {})
        => (ret.map = Null /\ ret.err # NoErr)

C1_Witness ==
    /\ Decoded /\ Mode = ModeFailOnFirstError
    /\ "boo" \in FailingKeys /\ data.v["boo"].k = "[]interface{}"
    /\ ret.map = Null /\ ret.err # NoErr

\* C2: in fail-on-first-error mode, once an error has been recorded the range
\* loop takes no further iteration: the call goes on to return with the
\* decoder, the record and the map as they are
C2_AbortsAtFirstFailure ==
    [][(pc = "populate" /\ d.options.mode = ModeFailOnFirstError /\ Len(d.raised) > 0)
          => (pc' = "return" /\ d' = d /\ v' = v /\ result' = result)]_vars

\* C3: in fail-on-first-error mode the error returned is the first one that
\* was raised
C3_ReturnsFirstError ==
    (Decoded /\ Mode = ModeFailOnFirstError /\ Len(d.raised) > 0)
        => ret.err = d.raised[1]

\* the value of x itself has the wrong JSON shape for t, or t is not
\* supported; what x holds inside is not looked at
RECURSIVE Mismatch(_, _)
Mismatch(t, x) ==
    IF Implements(t) \/ Implements(PtrTo(t)) THEN FALSE
    ELSE CASE Kind(t) = "string" -> x # Null /\ x.k # "string"
           [] Kind(t) = "int" -> x # Null /\ x.k # "float64"
           [] Kind(t) = "interface{}" -> FALSE
           [] Kind(t) \in {"slice", "array"} -> x # Null /\ x.k # "[]interface{}"
           [] Kind(t) \in {"struct", "map"} -> x # Null /\ x.k # "map[string]interface{}"
           [] Kind(t) = "ptr" -> Mismatch(Elem(t), x)
           [] OTHER -> TRUE

MismatchKeys == {k \in KnownKeys : Mismatch(FieldType(k), data.v[k])}

C5_FailOverFullKeyCoverage ==
    (Decoded /\ Mode = ModeFailOverToOriginalValue)
        => (ret.map # Null /\ DOMAIN ret.map.v = InputKeys)

C5_Witness ==
    /\ Decoded /\ Mode = ModeFailOverToOriginalValue
    /\ Cardinality(MismatchKeys) >= 2
    /\ DOMAIN ret.map.v = InputKeys

\* C6: in fail-over mode every known key whose coercion fails, for whatever
\* reason, holds its raw input value in the returned map
C6_FailOverKeepsRawValue ==
    (Decoded /\ Mode = ModeFailOverToOriginalValue)
        => \A k \in FailingKeys :
              k \in DOMAIN ret.map.v /\ ret.map.v[k] = data.v[k]

RECURSIVE Sum(_, _)
Sum(f, S) == IF S = {} THEN 0
             ELSE LET x == CHOOSE y \in S : TRUE IN f[x] + Sum(f, S \ {x})

\* the number of failing fields of x as a t: a field of a nested record
\* counts by itself, and so does a sequence with a failing element
RECURSIVE FailCount(_, _)
FailCount(t, x) ==
    IF Kind(t) = "struct" /\ ~Implements(PtrTo(t))
    THEN IF x = Null THEN 0
         ELSE IF x.k # "map[string]interface{}" THEN 1
         ELSE LET K == DOMAIN x.v \cap DOMAIN Fields(t)
              IN  Sum([f \in K |-> FailCount(Fields(t)[f], x.v[f])], K)
    ELSE IF Kind(t) = "ptr" /\ ~Implements(t) THEN FailCount(Elem(t), x)
    ELSE IF Fails(t, x) THEN 1 ELSE 0

FailingFields == Sum([k \in KnownKeys |-> FailCount(FieldType(k), data.v[k])], KnownKeys)

\* C7: in allow-multiple-errors mode every key of the input is visited, and
\* the aggregate returned holds as many errors as the input has failing
\* fields, those of nested records counted one by one
C7_AllowMultipleCountsEveryFailure ==
    (Decoded /\ Mode = ModeAllowMultipleErrors)
        => (todo = {} /\ Len(ret.err.Errors) = FailingFields)

C7_Witness ==
    /\ Decoded /\ Mode = ModeAllowMultipleErrors
    /\ data # Null /\ "child" \in InputKeys
    /\ FailCount("childStruct", data.v["child"]) = 2
    /\ Len(ret.err.Errors) = 3

Range(s) == {s[i] : i \in 1..Len(s)}

\* the error lists a decode of the input `dat` can end with under the
\* options `opts`, over every order of visiting the keys
RECURSIVE RunErrs(_, _, _, _, _)
RunErrs(dd, dat, inst, res, keys) ==
    IF keys = {} THEN {dd.errs}
    ELSE UNION {
           UNION { IF s.returned THEN {s.d.errs}
                   ELSE RunErrs(s.d, dat, s.inst, s.result, keys \ {key})
                   : s \in populateKey(dd, <<>>, dat, "parentStruct", inst, res, key) }
           : key \in keys }

ErrsUnder(mode) ==
    IF data = Null THEN {<<>>}
    ELSE RunErrs(NewDecoder([mode |-> mode, skipPopulateStruct |-> Skip]), data.v,
                 Zero("parentStruct").v, Obj(EmptyMap), DOMAIN data.v)

\* C8: a fail-over decode returns the errors an allow-multiple-errors decode
\* of the same input returns: as many, for the same fields
C8_FailOverSameErrorsAsAllowMultiple ==
    (Decoded /\ Mode = ModeFailOverToOriginalValue)
        => \E e \in ErrsUnder(ModeAllowMultipleErrors) :
              Len(e) = Len(ret.err.Errors) /\ Range(e) = Range(ret.err.Errors)

\* C9: in allow-multiple-errors and fail-over modes the map returned is not
\* nil, the error returned is nil exactly when no error was recorded, and
\* otherwise it is a MultipleError holding every recorded error, in order
C9_AggregateOfEveryRecordedError ==
    (Decoded /\ Mode \in {ModeAllowMultipleErrors, ModeFailOverToOriginalValue})
        => /\ ret.map # Null
           /\ (ret.err = NoErr) <=> (Len(d.raised) = 0)
           /\ Len(d.raised) > 0 =>
                (ret.err.kind = "MultipleError" /\ ret.err.Errors = d.raised)

C9_Witness ==
    /\ Decoded /\ Mode = ModeFailOverToOriginalValue
    /\ Len(d.raised) = 1
    /\ ret.err = MultipleError(d.raised) /\ ret.map # Null

\* C10: when nothing in the input fails, in each mode the call returns a nil
\* error and a map with the keys of the input in which every known key holds
\* a value of the field's type (or nil; any value for an interface{} field),
\* the value the record field holds
\* when the record is populated; the fields of the other keys stay zero
C10_SuccessfulDecode ==
    (Decoded /\ FailingKeys = {})
        => /\ ret.err = NoErr
           /\ ret.map # Null
           /\ DOMAIN ret.map.v = InputKeys
           /\ \A k \in KnownKeys :
                /\ \/ ret.map.v[k] = Null
                   \/ ret.map.v[k].k = FieldType(k)
                   \/ Kind(FieldType(k)) = "interface{}"
                /\ ~Skip => v.v[k] = IF ret.map.v[k] = Null THEN Zero(FieldType(k))
                                     ELSE ret.map.v[k]
           /\ \A f \in DOMAIN Fields("parentStruct") \ KnownKeys :
                v.v[f] = Zero(FieldType(f))

C10_Witness ==
    /\ Decoded /\ FailingKeys = {} /\ ~Skip
    /\ {"boo", "child"} \subseteq KnownKeys
    /\ data.v["boo"] # Null /\ Len(data.v["boo"].v) = MaxLen
    /\ data.v["child"] # Null /\ DOMAIN data.v["child"].v = {"c1", "c2"}
    /\ v.v["boo"] = ret.map.v["boo"] /\ v.v["child"] = ret.map.v["child"]
    /\ ret.err = NoErr

\* the keys of the input that name no field of parentStruct
UnknownKeys == InputKeys \ KnownKeys

\* C11: every key of the input that names no field of the record is in the
\* returned map with the value the input gives it, whenever a map is
\* returned, and no error is recorded under its path
C11_UnknownKeysKeptRaw ==
    Decoded
        => \A k \in UnknownKeys :
             /\ ret.map # Null => (k \in DOMAIN ret.map.v /\ ret.map.v[k] = data.v[k])
             /\ \A e \in Range(d.raised) : e.path = <<>> \/ e.path[1] # k

C11_Witness ==
    /\ Decoded /\ "goo" \in UnknownKeys /\ "boo" \in FailingKeys
    /\ data.v["goo"] = Arr(<<Str("x")>>)
    /\ ret.map # Null /\ ret.map.v["goo"] = data.v["goo"]
    /\ ret.err # NoErr

\* the record field of type t that held `field` after a decode of x was not
\* written if x failed; the fields of a nested record count one by one
RECURSIVE FailedUnwritten(_, _, _)
FailedUnwritten(t, x, field) ==
    IF /\ Kind(t) = "struct" /\ ~Implements(PtrTo(t))
       /\ x # Null /\ x.k = "map[string]interface{}"
    THEN \A f \in DOMAIN x.v \cap DOMAIN Fields(t) :
           FailedUnwritten(Fields(t)[f], x.v[f], field.v[f])
    ELSE Fails(t, x) => field = Zero(t)

\* C12: after the call, in every mode, a field of the record whose coercion
\* failed holds the zero value it held before the call
C12_FailedFieldNeverWritten ==
    Decoded => \A k \in KnownKeys : FailedUnwritten(FieldType(k), data.v[k], v.v[k])

\* C13: a destination that is nil or not a pointer to a record makes the
\* call return a nil map and ErrInvalidValue at once, in every mode: no
\* option is applied, nothing is coerced, recorded or written
C13_InvalidDestinationRejected ==
    [][(pc = "call" /\ ~isValidValue(v))
         => /\ pc' = "done"
            /\ ret' = [map |-> Null, err |-> ErrInvalidValue]
            /\ d' = NewDecoder(buildUnmarshalOptions(<<>>))
            /\ result' = Null
            /\ UNCHANGED <<data, v, options, d, result, todo>>]_vars

C13_Witness ==
    /\ pc = "done" /\ ~isValidValue(v)
    /\ options = <<WithMode(ModeFailOverToOriginalValue)>>
    /\ "foo" \in FailingKeys
    /\ ret = [map |-> Null, err |-> ErrInvalidValue]

\* C14: a nil input map with a valid destination gives, in every mode, a nil
\* error and an empty map that is not nil, and leaves the record as it was
C14_NilInput ==
    (Decoded /\ data = Null)
        => /\ ret = [map |-> Obj(EmptyMap), err |-> NoErr]
           /\ v = NewPtr(Zero("parentStruct"))
           /\ d.raised = <<>>

C14_Witness ==
    /\ Decoded /\ data = Null /\ Mode = ModeFailOverToOriginalValue
    /\ ret.map = Obj(EmptyMap) /\ ret.err = NoErr

\* the error the failing custom decoder of the tests returns
CustomErr == UnmarshalJSONFromMap("failingCustomUnmarshaler", Str("")).err

\* C15: the error of a custom decoder is the error returned, with a nil map,
\* in fail-on-first-error mode, and an element of the aggregate returned,
\* with a map, in the other two modes
C15_CustomErrorSurfaced ==
    (Decoded /\ CustomErr \in Range(d.raised))
        => IF Mode = ModeFailOnFirstError
           THEN ret = [map |-> Null, err |-> CustomErr]
           ELSE ret.map # Null /\ CustomErr \in Range(ret.err.Errors)

\* C16: a value whose custom decoder returned an error is a failed coercion:
\* ok is false, the field is not written, and in allow-multiple-errors mode
\* its key is not in the returned map
C16_CustomErrorIsFailure ==
    (Decoded /\ "custom" \in InputKeys /\ CustomErr \in Range(d.raised))
        => /\ \A o \in valueByReflectType(d, <<"custom">>, data.v["custom"],
                                           FieldType("custom"), FALSE) : ~o.ok
           /\ v.v["custom"] = Zero(FieldType("custom"))
           /\ Mode = ModeAllowMultipleErrors => "custom" \notin DOMAIN ret.map.v

\* the known keys the range loop of the top-level populateStruct has visited
Visited == IF pc = "call" \/ ~isValidValue(v) THEN {} ELSE KnownKeys \ todo

\* the types of the model that are supported and have no custom decoder
PlainTypes ==
    {"string", "int", "*string", "interface{}", "[]int", "[N]string",
     "map[string]string", "childStruct", "*childStruct"}

\* what null becomes for a destination of type t
NullValue(t, isPtr) ==
    IF Kind(t) \in {"string", "int"} /\ ~isPtr THEN Zero(t) ELSE Null

\* C17: with the decoder as the range loop left it, null is coerced,
\* successfully, to the zero value of a primitive that is not behind a
\* pointer and to nil for a pointer, an interface{}, a
\* sequence, a map, a nested record and a fixed-length array; the record
\* field of a key given as null holds its zero value after the visit (the
\* all-zero array for the fixed-length array), and a null inside a sequence
\* or a nested record becomes the zero value of the primitive there
C17_NullCoercion ==
    /\ pc = "return"
          => \A t \in PlainTypes : \A isPtr \in BOOLEAN :
               valueByReflectType(d, <<"k">>, Null, t, isPtr)
                   = {Out(NullValue(t, isPtr), TRUE, d)}
    /\ \A k \in Visited :
          /\ (data.v[k] = Null /\ FieldType(k) \in PlainTypes)
                => /\ k \in DOMAIN result.v
                   /\ result.v[k] = NullValue(FieldType(k), FALSE)
                   /\ v.v[k] = Zero(FieldType(k))
          /\ (k = "boo" /\ data.v[k] = Arr(<<Null, Num(1)>>))
                => result.v[k] = Val("[]int", <<Zero("int"), Val("int", 1)>>)
          /\ (k = "child" /\ data.v[k] # Null)
                => result.v[k].v["c1"] = Zero("string")

C17_Witness ==
    /\ Decoded /\ InputKeys = {"foo", "arr"}
    /\ data.v["foo"] = Null /\ data.v["arr"] = Null
    /\ ret.map # Null /\ ret.map.v["foo"] = Str("") /\ ret.map.v["arr"] = Null
    /\ v.v["arr"] = Val("[N]string", [i \in 1..ArrayLen |-> Str("")])

\* C18 as stated: the visit of a known key whose value is null records no
\* error and is no failure, whatever the kind of the field
C18_Original_NullNeverFails ==
    [][\A k \in todo \ todo' :
         (pc = "populate" /\ k \in KnownKeys /\ data.v[k] = Null)
            => (d'.raised = d.raised /\ k \in DOMAIN result'.v /\ pc' = "populate")]_vars

\* C18, amended: with the decoder as the range loop left it, coercing null to
\* a supported type without a custom decoder records no error and succeeds,
\* and the visit of a known key of such a
\* type whose value is null records no error, stores the key and goes on
C18_NullNeverFailsPlainType ==
    [][/\ pc = "return"
            => \A t \in PlainTypes : \A isPtr \in BOOLEAN :
                 \A o \in valueByReflectType(d, <<"k">>, Null, t, isPtr) : o.ok /\ o.d = d
       /\ \A k \in todo \ todo' :
            (pc = "populate" /\ k \in KnownKeys /\ data.v[k] = Null
                /\ FieldType(k) \in PlainTypes)
               => (d'.raised = d.raised /\ k \in DOMAIN result'.v /\ pc' = "populate")]_vars

C18_Witness ==
    /\ Decoded /\ Mode = ModeFailOnFirstError
    /\ InputKeys = {"mp", "child"} /\ data.v["mp"] = Null /\ data.v["child"] = Null
    /\ ret.err = NoErr /\ ret.map # Null /\ DOMAIN ret.map.v = InputKeys

\* what the call returns for the decoder dd and the map res
RetOf(dd, res) ==
    IF dd.options.mode = ModeAllowMultipleErrors
       \/ dd.options.mode = ModeFailOverToOriginalValue
    THEN IF Len(dd.errs) = 0 THEN [map |-> res, err |-> NoErr]
         ELSE [map |-> res, err |-> MultipleError(dd.errs)]
    ELSE IF dd.err # NoErr THEN [map |-> Null, err |-> dd.err]
         ELSE [map |-> res, err |-> NoErr]

\* the ends [ret, inst] a decode of the input `dat` can come to, over every
\* order of visiting the keys; a panic ends in a map that is Panic
RECURSIVE RunFinals(_, _, _, _, _)
RunFinals(dd, dat, inst, res, keys) ==
    IF keys = {} THEN {[ret |-> RetOf(dd, res), inst |-> inst]}
    ELSE UNION {
           UNION { IF s.value = Panic
                   THEN {[ret |-> [map |-> Panic, err |-> NoErr], inst |-> s.inst]}
                   ELSE IF s.returned
                   THEN {[ret |-> RetOf(s.d, s.result), inst |-> s.inst]}
                   ELSE RunFinals(s.d, dat, s.inst, s.result, keys \ {key})
                   : s \in populateKey(dd, <<>>, dat, "parentStruct", inst, res, key) }
           : key \in keys }

FinalsUnder(mode, skip) ==
    LET dd == NewDecoder([mode |-> mode, skipPopulateStruct |-> skip])
    IN  IF data = Null
        THEN {[ret |-> RetOf(dd, Obj(EmptyMap)), inst |-> Zero("parentStruct").v]}
        ELSE RunFinals(dd, data.v, Zero("parentStruct").v, Obj(EmptyMap), DOMAIN data.v)

\* C19: with skip-populate the record is after the call what it was before,
\* and the map and the error returned are what the call returns without
\* skip-populate: the two calls have the same possible returns
C19_SkipPopulate ==
    (Decoded /\ Skip)
        => /\ v = NewPtr(Zero("parentStruct"))
           /\ ret \in {f.ret : f \in FinalsUnder(Mode, FALSE)}
           /\ {f.ret : f \in FinalsUnder(Mode, TRUE)}
                 = {f.ret : f \in FinalsUnder(Mode, FALSE)}

C19_Witness ==
    /\ Decoded /\ Skip /\ Mode = ModeAllowMultipleErrors
    /\ InputKeys = {"child", "foo"}
    /\ ret.map # Null /\ "child" \in DOMAIN ret.map.v
    /\ ret.map.v["child"] = Val("childStruct", [c1 |-> Str("a"), c2 |-> Val("int", 3)])
    /\ ret.err # NoErr
    /\ v = NewPtr(Zero("parentStruct"))

\* the same error, the order of the errors of an aggregate left aside
SameErr(e1, e2) ==
    /\ e1.kind = e2.kind /\ e1.type = e2.type /\ e1.path = e2.path
    /\ Range(e1.Errors) = Range(e2.Errors)

\* C20: the map returned, the record and the errors reported are the same
\* for every order in which the keys of the input, of its nested objects
\* and of its maps are visited
C20_OrderIndependent ==
    Decoded
        => \A f \in FinalsUnder(Mode, Skip) :
             /\ f.ret.map = ret.map
             /\ f.inst = v.v
             /\ SameErr(f.ret.err, ret.err)

\* the ends a second decode can come to when the map the call returned is
\* its input, the destination a fresh record and the options the same
Redecoded ==
    RunFinals(NewDecoder(buildUnmarshalOptions(options)), ret.map.v,
              Zero("parentStruct").v, Obj(EmptyMap), DOMAIN ret.map.v)

\* C21 as stated: the map a successful decode returned, decoded again,
\* gives no error, the same record and an equal map
C21_Original_Idempotent ==
    (Decoded /\ ret.err = NoErr)
        => \A f \in Redecoded :
             f.ret = [map |-> ret.map, err |-> NoErr] /\ f.inst = v.v

\* x is nil or has one of the types of a JSON value
JSONTyped(x) ==
    x = Null \/ x.k \in {"string", "float64", "[]interface{}", "map[string]interface{}"}

\* the returned map can be read again as it is: under every known key it
\* holds a JSON value, or the field is an interface{} or has a custom decoder
Redecodable ==
    \A k \in KnownKeys :
        \/ JSONTyped(ret.map.v[k])
        \/ Kind(FieldType(k)) = "interface{}"
        \/ Implements(FieldType(k)) \/ Implements(PtrTo(FieldType(k)))

\* C21, amended: the map a successful decode returned, decoded again, gives
\* no error, the same record and an equal map when the values it holds under
\* the known keys are JSON values (or go to an interface{} or to a custom
\* decoder)
C21_IdempotentOnJSONValues ==
    (Decoded /\ ret.err = NoErr /\ Redecodable)
        => \A f \in Redecoded :
             f.ret = [map |-> ret.map, err |-> NoErr] /\ f.inst = v.v

C21_Witness ==
    /\ Decoded /\ ret.err = NoErr /\ Redecodable /\ ~Skip
    /\ InputKeys = {"foo", "goo"} /\ data.v["foo"] = Null
    /\ ret.map.v["foo"] = Str("") /\ ret.map.v["goo"] = data.v["goo"]
    /\ \E f \in Redecoded : f.ret.map = ret.map /\ f.inst = v.v

\* the mode the last WithMode of the options names, the default without one
RECURSIVE LastMode(_)
LastMode(opts) ==
    IF opts = <<>> THEN ModeFailOnFirstError
    ELSE IF opts[Len(opts)].fn = "WithMode" THEN opts[Len(opts)].x
    ELSE LastMode(SubSeq(opts, 1, Len(opts) - 1))

\* C22: the call sets the mode once, to the mode of the last WithMode option
\* or to fail-on-first-error without one, and no later step changes the
\* options of the decoder
C22_ModeChosenOnce ==
    [][/\ (pc = "call" /\ isValidValue(v)) => d'.options.mode = LastMode(options)
       /\ pc # "call" => d'.options = d.options
       /\ options' = options]_vars

C22_Witness ==
    /\ Decoded /\ InputKeys = {"foo", "boo"} /\ FailingKeys = {"foo", "boo"}
    /\ options = <<WithMode(ModeFailOverToOriginalValue), WithMode(ModeAllowMultipleErrors)>>
    /\ d.options.mode = ModeAllowMultipleErrors
    /\ ret.map = Obj([boo |-> Null]) /\ Len(ret.err.Errors) = 2

\* C23: with an atomic Load and an atomic Store, and EnableCache called only
\* while no decode is in flight, whatever the interleaving: no decode calls
\* Load or Store on a nil cache, every decode leaves mapStructFields with
\* the field mapping of its type, the cache holds for a type nothing but
\* that mapping, and it holds it once a decode of the type is through
C23_ConcurrentDecodesShareCache ==
    /\ \A p \in Decoders :
          /\ decodes[p].pc # "panic"
          /\ decodes[p].pc = "done"
                => /\ decodes[p].fields = FieldMap(decodes[p].t)
                   /\ cache.enabled => decodes[p].t \in DOMAIN cache.store
    /\ \A t \in DOMAIN cache.store : cache.store[t] = FieldMap(t)

\* two decodes of the same type both missed, and both store
C23_Witness ==
    /\ decodes[1].pc = "done" /\ decodes[2].pc = "storing"
    /\ decodes[1].t = "parentStruct" /\ decodes[2].t = "parentStruct"
    /\ cache.enabled /\ "parentStruct" \in DOMAIN cache.store

\* C24: an input array of any length put into a fixed-length array returns
\* normally, and when its elements are all convertible the array holds the
\* first ArrayLen of them by position, the rest of the array zero
C24_ArrayIgnoresOverflow ==
    /\ pc # "panic"
    /\ ("arr" \in Visited /\ data.v["arr"] # Null /\ ~Fails("[N]string", data.v["arr"]))
          => result.v["arr"] =
               Val("[N]string",
                   [i \in 1..ArrayLen |->
                      IF i <= Len(data.v["arr"].v)
                      THEN safeReflectValue("string", data.v["arr"].v[i])
                      ELSE Zero("string")])

\* the keys of the model whose fields are containers
ContainerKeys == {"boo", "arr", "mp"}

\* the element e of an input container as a value of the primitive type t
ConvertedElem(t, e) ==
    IF e = Null THEN Zero(t)
    ELSE IF t = "int" THEN Val("int", e.v) ELSE e

\* the input container x, all of whose elements are convertible, as a value
\* of the container type t; a sequence or an array has n elements
Converted(t, x, n) ==
    IF Kind(t) = "map"
    THEN Val(t, [f \in DOMAIN x.v |-> ConvertedElem(Elem(t), x.v[f])])
    ELSE Val(t, [i \in 1..n |->
                   IF i <= Len(x.v) THEN ConvertedElem(Elem(t), x.v[i]) ELSE Zero(Elem(t))])

\* the rule of containers for the visited key k, whose value is not null;
\* n is the length of a converted sequence or array
ContainerRule(k, n) ==
    LET t == FieldType(k)
        x == data.v[k]
    IN  IF Mismatch(t, x)
        THEN /\ newUnexpectedTypeParseError(t, <<k>>) \in Range(d.raised)
             /\ v.v[k] = Zero(t)
             /\ Mode = ModeAllowMultipleErrors => k \notin DOMAIN result.v
             /\ Mode = ModeFailOverToOriginalValue => result.v[k] = x
        ELSE IF Fails(t, x)
        THEN /\ result.v[k] = IF Mode = ModeFailOverToOriginalValue THEN x ELSE Null
             /\ v.v[k] = Zero(t)
        ELSE /\ result.v[k] = Converted(t, x, n)
             /\ ~Skip => v.v[k] = result.v[k]

ConvertedRecord(t, x) ==
    Val(t, [f \in DOMAIN Fields(t) |->
              IF f \in DOMAIN x.v /\ ~Fails(Fields(t)[f], x.v[f])
              THEN ConvertedElem(Fields(t)[f], x.v[f])
              ELSE Zero(Fields(t)[f])])

\* the input gives the key child an object in which a field fails
NestedFailure ==
    /\ "child" \in KnownKeys /\ data.v["child"] # Null
    /\ data.v["child"].k = "map[string]interface{}"
    /\ Fails("childStruct", data.v["child"])

\* C26: when a field of the nested record fails, allow-multiple-errors mode
\* assigns the nested record with the failing fields at zero and puts it in
\* the map, and fail-over mode leaves the field of the record as it was and
\* puts the raw nested object in the map
C26_NestedFailure ==
    (Decoded /\ NestedFailure)
        => /\ Mode = ModeAllowMultipleErrors
                => /\ "child" \in DOMAIN ret.map.v
                   /\ ret.map.v["child"] = ConvertedRecord("childStruct", data.v["child"])
                   /\ ~Skip => v.v["child"] = ret.map.v["child"]
           /\ Mode = ModeFailOverToOriginalValue
                => /\ "child" \in DOMAIN ret.map.v
                   /\ ret.map.v["child"] = data.v["child"]
                   /\ v.v["child"] = Zero("childStruct")

C26_Witness ==
    /\ Decoded /\ NestedFailure /\ Mode = ModeAllowMultipleErrors /\ ~Skip
    /\ data.v["child"] = Obj([c1 |-> Num(1), c2 |-> Num(3)])
    /\ v.v["child"] = Val("childStruct", [c1 |-> Str(""), c2 |-> Val("int", 3)])
    /\ ret.map.v["child"] = v.v["child"]

\* C27: the returned map never has a key the input lacks, in particular no
\* key of a nested object; a nested object that converts is in the map as
\* the typed record, and the visit of a key of the nested object, which is
\* given no map, leaves no map behind
C27_NestedKeysStayInside ==
    /\ (pc # "call" /\ isValidValue(v)) => DOMAIN result.v \subseteq InputKeys
    /\ ("child" \in Visited /\ data.v["child"] # Null
            /\ ~Fails("childStruct", data.v["child"]))
          => /\ result.v["child"] = ConvertedRecord("childStruct", data.v["child"])
             /\ \A f \in DOMAIN data.v["child"].v :
                  \A s \in populateKey(d, <<"child">>, data.v["child"].v, "childStruct",
                                        Zero("childStruct").v, Null, f) : s.result = Null

C27_Witness ==
    /\ Decoded /\ "child" \in KnownKeys
    /\ data.v["child"] = Obj([c1 |-> Null, c2 |-> Num(3), cx |-> Num(9)])
    /\ ret.map # Null
    /\ ret.map.v["child"] = Val("childStruct", [c1 |-> Str(""), c2 |-> Val("int", 3)])
    /\ "cx" \notin DOMAIN ret.map.v

\* the key unsup, whose field is of the unsupported kind chan, was visited
UnsupVisited == "unsup" \in Visited

\* what every mode does with the field of the unsupported kind: the
\* unsupported-type error is raised and the field keeps its value;
\* fail-on-first-error mode ends the decode with an error and no map, and
\* allow-multiple-errors mode omits the key
UnsupFailsInAnyMode ==
    UnsupVisited
        => /\ \E i \in DOMAIN d.raised :
                 d.raised[i] = newUnsupportedTypeParseError("chan int", <<"unsup">>)
           /\ newUnsupportedTypeParseError("chan int", <<"unsup">>)
                 # newUnexpectedTypeParseError("chan int", <<"unsup">>)
           /\ v.v["unsup"] = Zero("chan int")
           /\ Mode = ModeFailOnFirstError
                 => /\ pc \in {"return", "done"}
                    /\ Decoded => (ret.map = Null /\ ret.err # NoErr)
           /\ Mode = ModeAllowMultipleErrors => "unsup" \notin DOMAIN result.v

\* C28: a field of an unsupported kind fails with the unsupported-type error
\* whatever the input value is, and the failure is handled as the mode
\* handles a failing field: fail-over mode puts the raw input value in the map
C28_UnsupportedKindFails ==
    /\ UnsupFailsInAnyMode
    /\ (UnsupVisited /\ Mode = ModeFailOverToOriginalValue)
          => /\ "unsup" \in DOMAIN result.v
             /\ result.v["unsup"] = data.v["unsup"]

\* C29: no step of a decode changes the input, its nested maps and arrays
\* included, and the map the decode fills and returns is never the input
\* map: it is the map made at the start of the call
C29_InputNeverMutated ==
    [][/\ data' = data
       /\ resultAt' # "data"
       /\ (pc' = "done" /\ ret'.map # Null) => resultAt' = "make"]_vars

C29_Witness ==
    /\ Decoded /\ InputKeys = {"mp", "boo"}
    /\ data.v["mp"] # Null /\ data.v["mp"].k = "map[string]interface{}"
    /\ data.v["boo"] = Arr(<<Null, Num(1)>>)
    /\ ret.map # Null /\ ret.map # data /\ resultAt = "make"
    /\ ret.map.v["boo"] = Val("[]int", <<Zero("int"), Val("int", 1)>>)

\* the types of the fields of the model, supported or not
FieldTypes == PlainTypes \cup {"chan int", "*failingCustomUnmarshaler", "customUnmarshaler"}

\* the values of the input at hand, and null
InputValues == {data.v[k] : k \in InputKeys} \cup {Null}

\* C30: the slot of the single error is written in fail-on-first-error mode
\* only, where it holds the last error raised, and the list in the other two
\* modes only, where it holds every error raised; a coercion that returns
\* ok=false has raised an error before; and a decode returns an error if and
\* only if an error was raised in it
C30_ErrorBookkeeping ==
    /\ d.options.mode = ModeFailOnFirstError
          => /\ d.errs = <<>>
             /\ d.err = IF d.raised = <<>> THEN NoErr ELSE d.raised[Len(d.raised)]
    /\ d.options.mode # ModeFailOnFirstError
          => (d.err = NoErr /\ d.errs = d.raised)
    /\ \A i \in DOMAIN d.raised : d.raised[i] # NoErr
    /\ pc = "return"
          => \A t \in FieldTypes : \A x \in InputValues :
               \A o \in valueByReflectType(d, <<"k">>, x, t, FALSE) :
                  (o.value # Panic /\ ~o.ok) => Len(o.d.raised) > Len(d.raised)
    /\ Decoded => (ret.err # NoErr <=> d.raised # <<>>)

C30_Witness ==
    /\ Decoded /\ Mode = ModeFailOverToOriginalValue
    /\ Len(d.raised) = 2 /\ d.errs = d.raised /\ d.err = NoErr
    /\ ret.err = MultipleError(d.errs)

====
